---- MODULE Spec2Model ----
(***************************************************************************)
(* State-diff merge engine of edr (crates/state/api/src/diff.rs):         *)
(* StateDiff::apply_account_change, apply_storage_change and apply_diff   *)
(* over a map Address -> Account, with the AccountStatus flag set.        *)
(***************************************************************************)
EXTENDS Integers, FiniteSets, Sequences, TLC

VARIABLES
    inner,      \* StateDiff.inner: HashMap<Address, Account>
    prev,       \* history: StateDiff.inner as it was before the last call
    last,       \* history: the last call made on the diff, with its arguments
    steps,      \* number of calls made so far (Spec)
    everCode,   \* history: addresses whose stored info had code at some point
    viaStorage, \* history: addresses whose entry was inserted by apply_storage_change
    target,     \* the one address a load sequence works on (SpecLoad)
    calls,      \* history: the calls made so far, in order (SpecLoad)
    foreign,    \* a second StateDiff, built to be merged into the first (SpecNested)
    rpc,        \* the last request handled at the boundary, with its outcome (SpecRpc)
    dump,       \* the StateDump of the last successful dump, if any (SpecRpc)
    wire,       \* that StateDump as serialized, if any (SpecRpc)
    loaded      \* the StateDiff rebuilt by the last successful load, if any (SpecRpc)

\* The variables of the boundary and of the second diff.
outer == <<foreign, rpc, dump, wire, loaded>>

vars == <<inner, prev, last, steps, everCode, viaStorage, target, calls, outer>>

----------------------------------------------------------------------------
(* Bounds *)

MaxOps == 2

MaxCalls == 3

----------------------------------------------------------------------------
(* Value types *)

Addresses == {"a1", "a2"}

\* Option<T>: None is the empty sequence, Some(x) the one-element sequence.
None == <<>>

Some(x) == <<x>>

unwrap_or(opt, default) == IF opt = None THEN default ELSE opt[1]

\* Bytecode::hash_slow: keccak256 of the bytes, kept as an injective wrapper
\* around its preimage.
hash_slow(code) == [keccak256 |-> code]

\* KECCAK_EMPTY: the hash of the empty byte sequence.
KECCAK_EMPTY == hash_slow(<<>>)

\* AccountStatus bit flags, as a set of flag names; `|` and insert are union.
Touched == "Touched"

Created == "Created"

AccountStatusFlags == {Touched, Created}

\* tests::account_info_without_code
account_info_without_code(balance, nonce) ==
    [balance |-> balance, nonce |-> nonce, code_hash |-> KECCAK_EMPTY, code |-> None]

\* tests::account_info_with_code
account_info_with_code(balance, nonce, code) ==
    [balance |-> balance, nonce |-> nonce, code_hash |-> hash_slow(code),
     code |-> Some(code)]

\* AccountInfo::default(), the value of unwrap_or_default() on None:
\* zero balance, zero nonce, the empty code hash and an empty bytecode.
AccountInfo_default ==
    [balance |-> 0, nonce |-> 0, code_hash |-> KECCAK_EMPTY, code |-> Some(<<>>)]

\* EvmStorageSlot::new(value, transaction_id)
EvmStorageSlot_new(value, tx) ==
    [original_value |-> value, present_value |-> value, transaction_id |-> tx,
     is_cold |-> FALSE]

\* HashMap::default()
EmptyMap == [k \in {} |-> 0]

\* HashMap::insert(key, value)
MapInsert(m, key, value) ==
    [k \in (DOMAIN m) \cup {key} |-> IF k = key THEN value ELSE m[k]]

\* HashMap::extend(other): every entry of other is inserted, overwriting.
MapExtend(m, other) ==
    [k \in (DOMAIN m) \cup (DOMAIN other) |-> IF k \in DOMAIN other THEN other[k] ELSE m[k]]

----------------------------------------------------------------------------
(* The merge engine *)

\* StateDiff::default()
StateDiff_default == EmptyMap

account_has_code(account_info) == account_info.code_hash # KECCAK_EMPTY

\* Seeded fault: and_modify replaces the info but never inserts Created.
apply_account_change_no_created_on_update(self, address, account_info) ==
    LET new_account_has_code == account_has_code(account_info) IN
    IF address \in DOMAIN self
    THEN [self EXCEPT ![address].info = account_info]
    ELSE MapInsert(self, address,
            [info |-> account_info,
             storage |-> EmptyMap,
             status |-> IF new_account_has_code THEN {Created, Touched} ELSE {Touched},
             transaction_id |-> 0])

\* Seeded fault: or_insert_with gives Touched alone, whatever the code.
apply_account_change_insert_touched_only(self, address, account_info) ==
    LET new_account_has_code == account_has_code(account_info) IN
    IF address \in DOMAIN self
    THEN LET account == self[address]
             status == IF new_account_has_code /\ ~account_has_code(account.info)
                       THEN account.status \cup {Created}
                       ELSE account.status
         IN  [self EXCEPT ![address] =
                 [account EXCEPT !.status = status, !.info = account_info]]
    ELSE MapInsert(self, address,
            [info |-> account_info, storage |-> EmptyMap, status |-> {Touched},
             transaction_id |-> 0])

\* Seeded fault: and_modify keeps the stored code when the new info brings none.
apply_account_change_keeps_old_code(self, address, account_info) ==
    LET new_account_has_code == account_has_code(account_info) IN
    IF address \in DOMAIN self
    THEN LET account == self[address]
             status == IF new_account_has_code /\ ~account_has_code(account.info)
                       THEN account.status \cup {Created}
                       ELSE account.status
             info == IF new_account_has_code
                     THEN account_info
                     ELSE [account_info EXCEPT !.code = account.info.code,
                                               !.code_hash = account.info.code_hash]
         IN  [self EXCEPT ![address] = [account EXCEPT !.status = status, !.info = info]]
    ELSE MapInsert(self, address,
            [info |-> account_info,
             storage |-> EmptyMap,
             status |-> IF new_account_has_code THEN {Created, Touched} ELSE {Touched},
             transaction_id |-> 0])

\* Seeded fault: an entry that exists is left as it is (or_insert_with only).
apply_account_change_insert_only(self, address, account_info) ==
    IF address \in DOMAIN self
    THEN self
    ELSE MapInsert(self, address,
            [info |-> account_info,
             storage |-> EmptyMap,
             status |-> IF account_has_code(account_info)
                        THEN {Created, Touched} ELSE {Touched},
             transaction_id |-> 0])

apply_account_change(self, address, account_info) ==
    LET new_account_has_code == account_has_code(account_info) IN
    IF address \in DOMAIN self
    THEN \* and_modify
         LET account == self[address]
             status == IF new_account_has_code /\ ~account_has_code(account.info)
                       THEN account.status \cup {Created}
                       ELSE account.status
         IN  [self EXCEPT ![address] =
                 [account EXCEPT !.status = status, !.info = account_info]]
    ELSE \* or_insert_with
         MapInsert(self, address,
            [info |-> account_info,
             storage |-> EmptyMap,
             status |-> IF new_account_has_code THEN {Created, Touched} ELSE {Touched},
             transaction_id |-> 0])

\* Seeded fault: or_insert_with derives Created from the code, as
\* apply_account_change does.
apply_storage_change_status_from_code(self, address, index, slot, account_info) ==
    IF address \in DOMAIN self
    THEN [self EXCEPT ![address].storage = MapInsert(@, index, slot)]
    ELSE LET info == unwrap_or(account_info, AccountInfo_default) IN
         MapInsert(self, address,
            [info |-> info,
             storage |-> MapInsert(EmptyMap, index, slot),
             status |-> IF account_has_code(info) THEN {Created, Touched} ELSE {Touched},
             transaction_id |-> 0])

\* Seeded fault: and_modify also stores the info when one is given.
apply_storage_change_info_on_update(self, address, index, slot, account_info) ==
    IF address \in DOMAIN self
    THEN [self EXCEPT ![address].storage = MapInsert(@, index, slot),
                      ![address].info = unwrap_or(account_info, @)]
    ELSE MapInsert(self, address,
            [info |-> unwrap_or(account_info, AccountInfo_default),
             storage |-> MapInsert(EmptyMap, index, slot),
             status |-> {Created, Touched},
             transaction_id |-> 0])

apply_storage_change(self, address, index, slot, account_info) ==
    IF address \in DOMAIN self
    THEN \* and_modify
         [self EXCEPT ![address].storage = MapInsert(@, index, slot)]
    ELSE \* or_insert_with
         MapInsert(self, address,
            [info |-> unwrap_or(account_info, AccountInfo_default),
             storage |-> MapInsert(EmptyMap, index, slot),
             status |-> {Created, Touched},
             transaction_id |-> 0])

\* Seeded fault: and_modify assigns the foreign status instead of inserting it.
apply_diff_entry_status_replaced(self, address, account_diff) ==
    IF address \in DOMAIN self
    THEN [self EXCEPT ![address] =
             [@ EXCEPT !.info = account_diff.info,
                       !.status = account_diff.status,
                       !.storage = MapExtend(@, account_diff.storage)]]
    ELSE MapInsert(self, address, account_diff)

\* Seeded fault: and_modify assigns the foreign storage instead of extending with it.
apply_diff_entry_storage_replaced(self, address, account_diff) ==
    IF address \in DOMAIN self
    THEN [self EXCEPT ![address] =
             [@ EXCEPT !.info = account_diff.info,
                       !.status = @ \cup account_diff.status,
                       !.storage = account_diff.storage]]
    ELSE MapInsert(self, address, account_diff)

\* Seeded fault: or_insert marks the inserted foreign account as Touched.
apply_diff_entry_insert_touched(self, address, account_diff) ==
    IF address \in DOMAIN self
    THEN [self EXCEPT ![address] =
             [@ EXCEPT !.info = account_diff.info,
                       !.status = @ \cup account_diff.status,
                       !.storage = MapExtend(@, account_diff.storage)]]
    ELSE MapInsert(self, address,
                   [account_diff EXCEPT !.status = @ \cup {Touched}])

\* Seeded fault: and_modify leaves the stored info.
apply_diff_entry_keeps_info(self, address, account_diff) ==
    IF address \in DOMAIN self
    THEN [self EXCEPT ![address] =
             [@ EXCEPT !.status = @ \cup account_diff.status,
                       !.storage = MapExtend(@, account_diff.storage)]]
    ELSE MapInsert(self, address, account_diff)

\* Seeded fault: and_modify toggles the foreign flags instead of inserting them.
apply_diff_entry_status_toggled(self, address, account_diff) ==
    IF address \in DOMAIN self
    THEN [self EXCEPT ![address] =
             [@ EXCEPT !.info = account_diff.info,
                       !.status = (@ \ account_diff.status) \cup (account_diff.status \ @),
                       !.storage = MapExtend(@, account_diff.storage)]]
    ELSE MapInsert(self, address, account_diff)

\* One iteration of the loop of apply_diff.
apply_diff_entry(self, address, account_diff) ==
    IF address \in DOMAIN self
    THEN \* and_modify
         [self EXCEPT ![address] =
             [@ EXCEPT !.info = account_diff.info,
                       !.status = @ \cup account_diff.status,
                       !.storage = MapExtend(@, account_diff.storage)]]
    ELSE \* or_insert
         MapInsert(self, address, account_diff)

\* The loop of apply_diff over the entries of diff not yet visited; a HashMap
\* iterates in an unspecified order and its keys are unique.
RECURSIVE apply_diff_loop(_, _, _)
apply_diff_loop(self, diff, todo) ==
    IF todo = {} THEN self
    ELSE LET address == CHOOSE a \in todo : TRUE IN
         apply_diff_loop(apply_diff_entry(self, address, diff[address]), diff,
                         todo \ {address})

\* Seeded fault: the map is replaced by the merged entries of diff, and the
\* addresses diff does not hold are lost.
apply_diff_drops_untouched(self, diff) ==
    LET merged == apply_diff_loop(self, diff, DOMAIN diff) IN
    IF diff = EmptyMap THEN self ELSE [a \in DOMAIN diff |-> merged[a]]

apply_diff(self, diff) == apply_diff_loop(self, diff, DOMAIN diff)

----------------------------------------------------------------------------
(* Inputs *)

\* The bytecodes of the tests: [0x60,0x00,0x60,0x00,0xf3] and [0x60,0x01,0x60,0x00,0xf3].
Bytecode1 == <<96, 0, 96, 0, 243>>

Bytecode2 == <<96, 1, 96, 0, 243>>

\* Account infos handed to apply_account_change: the ones of the tests.
AccountInfos ==
    {account_info_without_code(1000, 0),
     account_info_without_code(1000, 5),
     account_info_with_code(1000, 5, Bytecode1),
     account_info_with_code(2000, 2, Bytecode2)}

\* The optional account info handed to apply_storage_change.
AccountInfoOpts ==
    {None,
     Some(account_info_without_code(1000, 0)),
     Some(account_info_with_code(1000, 5, Bytecode1))}

Indices == {0, 1}

Slots == {EvmStorageSlot_new(42, 0), EvmStorageSlot_new(7, 0)}

\* Accounts of a foreign map handed to apply_diff: any status, storage written
\* by an execution (original and present value differ), a set ordering tag.
ForeignSlotA ==
    [original_value |-> 42, present_value |-> 9, transaction_id |-> 3, is_cold |-> FALSE]

ForeignSlotB ==
    [original_value |-> 0, present_value |-> 7, transaction_id |-> 3, is_cold |-> TRUE]

ForeignStorages ==
    {EmptyMap,
     MapInsert(EmptyMap, 1, ForeignSlotA),
     MapInsert(MapInsert(EmptyMap, 0, ForeignSlotA), 1, ForeignSlotB)}

ForeignInfos ==
    {account_info_without_code(3000, 1), account_info_with_code(2000, 2, Bytecode2)}

ForeignAccounts ==
    [info : ForeignInfos, storage : ForeignStorages,
     status : SUBSET AccountStatusFlags, transaction_id : {3}]

\* Foreign maps: the empty map, every one-address map, and the two-address maps
\* over the accounts with full storage and a one-flag status.
ForeignMaps ==
    {EmptyMap}
    \cup {MapInsert(EmptyMap, a, acc) : a \in Addresses, acc \in ForeignAccounts}
    \cup {[a \in Addresses |-> IF a = "a1" THEN x ELSE y] :
            x, y \in {acc \in ForeignAccounts :
                        /\ Cardinality(DOMAIN acc.storage) = 2
                        /\ Cardinality(acc.status) = 1
                        /\ account_has_code(acc.info) = (acc.status = {Touched})}}

----------------------------------------------------------------------------
(* Calls on the diff *)

NoAddress == "none"

NoCall ==
    [op |-> "none", address |-> NoAddress, account_info |-> None, index |-> 0,
     slot |-> None, diff |-> EmptyMap]

AccountChangeCall(address, account_info) ==
    [NoCall EXCEPT !.op = "apply_account_change", !.address = address,
                   !.account_info = Some(account_info)]

StorageChangeCall(address, index, slot, account_info) ==
    [NoCall EXCEPT !.op = "apply_storage_change", !.address = address,
                   !.index = index, !.slot = Some(slot), !.account_info = account_info]

DiffCall(diff) == [NoCall EXCEPT !.op = "apply_diff", !.diff = diff]

\* The effect of one call on the map.
Apply(self, call) ==
    CASE call.op = "apply_account_change" ->
            apply_account_change(self, call.address, call.account_info[1])
      [] call.op = "apply_storage_change" ->
            apply_storage_change(self, call.address, call.index, call.slot[1],
                                 call.account_info)
      [] call.op = "apply_diff" -> apply_diff(self, call.diff)
      [] OTHER -> self

\* The effect of a sequence of calls, from the left.
RECURSIVE Replay(_, _)
Replay(self, cs) ==
    IF cs = <<>> THEN self ELSE Replay(Apply(self, Head(cs)), Tail(cs))

\* One call: the map changes, the history variables record it.
Do(call) ==
    /\ inner' = Apply(inner, call)
    /\ prev' = inner
    /\ last' = call
    /\ everCode' = everCode \cup {a \in DOMAIN inner' : account_has_code(inner'[a].info)}
    /\ viaStorage' = viaStorage \cup
            (IF call.op = "apply_storage_change" /\ call.address \notin DOMAIN inner
             THEN {call.address} ELSE {})

----------------------------------------------------------------------------
(* Results and requests at the boundary *)

\* Result<T, E>
Ok(v) == [tag |-> "Ok", val |-> v]

Err(e) == [tag |-> "Err", val |-> e]

NoResult == [tag |-> "none", val |-> None]

\* No request handled yet.
NoRequest ==
    [handler |-> "none", args |-> <<>>, store_calls |-> <<>>,
     store_result |-> NoResult, response |-> NoResult]

\* The boundary and the second diff before anything happened.
OuterInit ==
    /\ foreign = StateDiff_default
    /\ rpc = NoRequest
    /\ dump = None
    /\ wire = None
    /\ loaded = None

----------------------------------------------------------------------------
(* Spec: any calls on a diff that starts empty *)

Init ==
    /\ inner = StateDiff_default
    /\ prev = StateDiff_default
    /\ last = NoCall
    /\ steps = 0
    /\ everCode = {}
    /\ viaStorage = {}
    /\ target = NoAddress
    /\ calls = <<>>
    /\ OuterInit

ApplyAccountChange ==
    /\ steps < MaxOps
    /\ \E address \in Addresses, account_info \in AccountInfos :
          Do(AccountChangeCall(address, account_info))
    /\ steps' = steps + 1
    /\ UNCHANGED <<target, calls, outer>>

ApplyStorageChange ==
    /\ steps < MaxOps
    /\ \E address \in Addresses, index \in Indices, slot \in Slots,
          account_info \in AccountInfoOpts :
          Do(StorageChangeCall(address, index, slot, account_info))
    /\ steps' = steps + 1
    /\ UNCHANGED <<target, calls, outer>>

\* apply_diff on the empty diff leaves the foreign map itself, the diff that
\* StateDiff::from(map) constructs.
ApplyDiff ==
    /\ steps < MaxOps
    /\ \E diff \in ForeignMaps : Do(DiffCall(diff))
    /\ steps' = steps + 1
    /\ UNCHANGED <<target, calls, outer>>

Next == ApplyAccountChange \/ ApplyStorageChange \/ ApplyDiff

Spec == Init /\ [][Next]_vars

----------------------------------------------------------------------------
(* SpecLoad: a sequence of apply_account_change / apply_storage_change calls *)
(* on one address of a diff that starts empty, as load_state issues them    *)

InitLoad ==
    /\ inner = StateDiff_default
    /\ prev = StateDiff_default
    /\ last = NoCall
    /\ steps = 0
    /\ everCode = {}
    /\ viaStorage = {}
    /\ target \in Addresses
    /\ calls = <<>>
    /\ OuterInit

LoadAccountChange ==
    /\ Len(calls) < MaxCalls
    /\ \E account_info \in AccountInfos :
          /\ Do(AccountChangeCall(target, account_info))
          /\ calls' = Append(calls, AccountChangeCall(target, account_info))
    /\ UNCHANGED <<steps, target, outer>>

LoadStorageChange ==
    /\ Len(calls) < MaxCalls
    /\ \E index \in Indices, slot \in Slots, account_info \in AccountInfoOpts :
          /\ Do(StorageChangeCall(target, index, slot, account_info))
          /\ calls' = Append(calls, StorageChangeCall(target, index, slot, account_info))
    /\ UNCHANGED <<steps, target, outer>>

NextLoad == LoadAccountChange \/ LoadStorageChange

SpecLoad == InitLoad /\ [][NextLoad]_vars

----------------------------------------------------------------------------
(* SpecLayer: the calls of SpecLoad and apply_diff calls, foreign maps laid *)
(* one over the other on a diff that starts empty                          *)

\* The foreign maps that hold the address worked on, with storage in every account.
LayerMaps ==
    {diff \in ForeignMaps :
        /\ target \in DOMAIN diff
        /\ \A a \in DOMAIN diff : DOMAIN diff[a].storage # {}}

LayerDiff ==
    /\ Len(calls) < MaxCalls
    /\ \E diff \in LayerMaps :
          /\ Do(DiffCall(diff))
          /\ calls' = Append(calls, DiffCall(diff))
    /\ UNCHANGED <<steps, target, outer>>

NextLayer == LoadAccountChange \/ LoadStorageChange \/ LayerDiff

SpecLayer == InitLoad /\ [][NextLayer]_vars

----------------------------------------------------------------------------
(* SpecNested: two diffs that start empty, each built by apply_account_change *)
(* and apply_storage_change calls and by apply_diff of the other, which is   *)
(* moved into the call                                                       *)

\* A call on the second diff.
DoForeign(call) ==
    /\ Len(calls) < MaxCalls
    /\ foreign' = Apply(foreign, call)
    /\ calls' = Append(calls, call)
    /\ UNCHANGED <<inner, prev, last, steps, everCode, viaStorage, target,
                   rpc, dump, wire, loaded>>

ForeignAccountChange ==
    \E account_info \in AccountInfos : DoForeign(AccountChangeCall(target, account_info))

ForeignStorageChange ==
    \E index \in Indices, slot \in Slots, account_info \in AccountInfoOpts :
        DoForeign(StorageChangeCall(target, index, slot, account_info))

\* self.apply_diff(foreign.into()): the second diff is consumed.
MergeForeign ==
    /\ Len(calls) < MaxCalls
    /\ Do(DiffCall(foreign))
    /\ calls' = Append(calls, DiffCall(foreign))
    /\ foreign' = StateDiff_default
    /\ UNCHANGED <<steps, target, rpc, dump, wire, loaded>>

\* foreign.apply_diff(self.into()): the first diff is consumed.
MergeIntoForeign ==
    /\ Len(calls) < MaxCalls
    /\ foreign' = apply_diff(foreign, inner)
    /\ inner' = StateDiff_default
    /\ prev' = inner
    /\ last' = NoCall
    /\ calls' = Append(calls, DiffCall(inner))
    /\ UNCHANGED <<steps, everCode, viaStorage, target, rpc, dump, wire, loaded>>

NextNested ==
    \/ LoadAccountChange
    \/ LoadStorageChange
    \/ ForeignAccountChange
    \/ ForeignStorageChange
    \/ MergeForeign
    \/ MergeIntoForeign

SpecNested == InitLoad /\ [][NextNested]_vars

----------------------------------------------------------------------------
(* The snapshot format (rpc_types/state.rs) *)

\* The wire form of a U256 or of a byte sequence: a hex string, kept as a wrapper.
ToHex(v) == [hex |-> v]

FromHex(j) == j.hex

\* Seeded fault: the test is inverted.
is_bytes_empty_inverted(bytes) == bytes # <<>>

is_bytes_empty(bytes) == bytes = <<>>

\* HashMap::is_empty
MapIsEmpty(m) == DOMAIN m = {}

\* The fields serde writes for a StateAccount: balance and nonce always, code and
\* storage unless skip_serializing_if holds.
StateAccount_fields(account) ==
    {"balance", "nonce"}
    \cup (IF is_bytes_empty(account.code) THEN {} ELSE {"code"})
    \cup (IF MapIsEmpty(account.storage) THEN {} ELSE {"storage"})

\* Serialize for StateAccount: a JSON object, a map from field names to values.
StateAccount_serialize(account) ==
    [f \in StateAccount_fields(account) |->
        CASE f = "balance" -> ToHex(account.balance)
          [] f = "nonce" -> ToHex(account.nonce)
          [] f = "code" -> ToHex(account.code)
          [] f = "storage" ->
                [k \in {ToHex(i) : i \in DOMAIN account.storage} |->
                    ToHex(account.storage[FromHex(k)])]]

\* Deserialize for StateAccount: balance and nonce are required, code and storage
\* take their defaults when absent.
StateAccount_deserialize(json) ==
    IF ~({"balance", "nonce"} \subseteq DOMAIN json)
    THEN Err("missing field")
    ELSE Ok([balance |-> FromHex(json["balance"]),
             code |-> IF "code" \in DOMAIN json THEN FromHex(json["code"]) ELSE <<>>,
             nonce |-> FromHex(json["nonce"]),
             storage |-> IF "storage" \in DOMAIN json
                         THEN [i \in {FromHex(k) : k \in DOMAIN json["storage"]} |->
                                  FromHex(json["storage"][ToHex(i)])]
                         ELSE EmptyMap])

\* StateDump::new
StateDump_new == [accounts |-> EmptyMap]

\* StateDump::add_account
add_account(self, address, account) ==
    [self EXCEPT !.accounts = MapInsert(@, address, account)]

\* Serialize for StateDump
StateDump_serialize(state_dump) ==
    [accounts |-> [a \in DOMAIN state_dump.accounts |->
                      StateAccount_serialize(state_dump.accounts[a])]]

\* Deserialize for StateDump: fails when an account fails.
StateDump_deserialize(json) ==
    IF \E a \in DOMAIN json.accounts : StateAccount_deserialize(json.accounts[a]).tag = "Err"
    THEN Err("missing field")
    ELSE Ok([accounts |-> [a \in DOMAIN json.accounts |->
                              StateAccount_deserialize(json.accounts[a]).val]])

----------------------------------------------------------------------------
(* The state store behind the boundary (ProviderData), as the spec describes it *)

\* The bytes of an account's code: none when the code is absent.
CodeBytes(account_info) == unwrap_or(account_info.code, <<>>)

\* The resolved account of a StateAccount: balance, nonce, code and storage values.
ResolvedAccount(account) ==
    [balance |-> account.info.balance,
     code |-> CodeBytes(account.info),
     nonce |-> account.info.nonce,
     storage |-> [k \in DOMAIN account.storage |-> account.storage[k].present_value]]

\* dump_state: one add_account per address of the state.
RECURSIVE dump_state_loop(_, _, _)
dump_state_loop(state_dump, state, todo) ==
    IF todo = {} THEN state_dump
    ELSE LET address == CHOOSE a \in todo : TRUE IN
         dump_state_loop(add_account(state_dump, address, ResolvedAccount(state[address])),
                         state, todo \ {address})

dump_state(state) == dump_state_loop(StateDump_new, state, DOMAIN state)

\* The account info load_state hands to apply_account_change.
LoadedInfo(account) ==
    IF account.code = <<>>
    THEN account_info_without_code(account.balance, account.nonce)
    ELSE account_info_with_code(account.balance, account.nonce, account.code)

\* The calls load_state makes for one account: one apply_account_change for the
\* info and one apply_storage_change per storage entry.
LoadCalls(address, account) ==
    {AccountChangeCall(address, LoadedInfo(account))}
    \cup {StorageChangeCall(address, k, EvmStorageSlot_new(account.storage[k], 0), None) :
            k \in DOMAIN account.storage}

\* The sequences that hold each call of the set once.
RECURSIVE SeqsOf(_)
SeqsOf(S) ==
    IF S = {} THEN {<<>>}
    ELSE UNION {{<<c>> \o rest : rest \in SeqsOf(S \ {c})} : c \in S}

\* load_state with the calls of each account made in the order given for it.
RECURSIVE load_state_loop(_, _, _)
load_state_loop(state, order, todo) ==
    IF todo = {} THEN state
    ELSE LET address == CHOOSE a \in todo : TRUE IN
         load_state_loop(Replay(state, order[address]), order, todo \ {address})

\* The orders load_state may make its calls in: any order per address.
RECURSIVE LoadOrdersOf(_, _)
LoadOrdersOf(accounts, todo) ==
    IF todo = {} THEN {EmptyMap}
    ELSE LET address == CHOOSE a \in todo : TRUE IN
         {MapInsert(rest, address, cs) :
            rest \in LoadOrdersOf(accounts, todo \ {address}),
            cs \in SeqsOf(LoadCalls(address, accounts[address]))}

LoadOrders(state_dump) == LoadOrdersOf(state_dump.accounts, DOMAIN state_dump.accounts)

\* The info the store holds for an address.
CurrentInfo(state, address) ==
    IF address \in DOMAIN state THEN state[address].info ELSE AccountInfo_default

\* The change each mutation of the store makes through the merge engine.
SetBalanceCall(state, address, balance) ==
    AccountChangeCall(address, [CurrentInfo(state, address) EXCEPT !.balance = balance])

SetNonceCall(state, address, nonce) ==
    AccountChangeCall(address, [CurrentInfo(state, address) EXCEPT !.nonce = nonce])

SetCodeCall(state, address, code) ==
    AccountChangeCall(address,
        [CurrentInfo(state, address) EXCEPT !.code = Some(code), !.code_hash = hash_slow(code)])

SetStorageCall(state, address, index, value) ==
    StorageChangeCall(address, index, EvmStorageSlot_new(value, 0), None)

\* The results the store gives: success, or one of its errors.
Unit == "()"

StoreErrors == {Err("InvalidInput"), Err("State")}

SetResults == {Ok(Unit)} \cup StoreErrors

----------------------------------------------------------------------------
(* The boundary handlers (requests/hardhat/state.rs) *)

\* One call on the state store.
StoreCall(method, args) == [method |-> method, args |-> args]

\* What a handler did: the calls it made on the store, what the store answered
\* and what the handler returned.
Handled(store_call, store_result, response) ==
    [store_calls |-> <<store_call>>, store_result |-> store_result, response |-> response]

\* data.set_balance(address, balance)?; Ok(true)
handle_set_balance(result, address, balance) ==
    Handled(StoreCall("set_balance", <<address, balance>>), result,
            IF result.tag = "Err" THEN result ELSE Ok(TRUE))

\* Seeded fault: the outcome of the store call becomes the boolean returned.
handle_set_code_swallows_error(result, address, code) ==
    Handled(StoreCall("set_code", <<address, code>>), result, Ok(result.tag = "Ok"))

\* data.set_code(address, code)?; Ok(true)
handle_set_code(result, address, code) ==
    Handled(StoreCall("set_code", <<address, code>>), result,
            IF result.tag = "Err" THEN result ELSE Ok(TRUE))

\* data.set_nonce(address, nonce)?; Ok(true)
handle_set_nonce(result, address, nonce) ==
    Handled(StoreCall("set_nonce", <<address, nonce>>), result,
            IF result.tag = "Err" THEN result ELSE Ok(TRUE))

\* data.set_account_storage_slot(address, index, value)?; Ok(true)
handle_set_storage_at(result, address, index, value) ==
    Handled(StoreCall("set_account_storage_slot", <<address, index, value>>), result,
            IF result.tag = "Err" THEN result ELSE Ok(TRUE))

\* data.dump_state()
handle_dump_state(result) ==
    Handled(StoreCall("dump_state", <<>>), result, result)

\* data.load_state(state_dump)?; Ok(true)
handle_load_state(result, state_dump) ==
    Handled(StoreCall("load_state", <<state_dump>>), result,
            IF result.tag = "Err" THEN result ELSE Ok(TRUE))

----------------------------------------------------------------------------
(* SpecRpc: requests at the boundary on a store that starts empty: mutations  *)
(* and committed executions up to the first snapshot, then snapshots of the   *)
(* store and one load of the snapshot on the wire into an empty diff          *)

Balances == {0, 1000}

Nonces == {0, 5}

Codes == {<<>>, Bytecode1}

StorageValues == {7, 42}

\* The request as received and what its handler did.
Request(handler, args, handled) ==
    [handler |-> handler, args |-> args, store_calls |-> handled.store_calls,
     store_result |-> handled.store_result, response |-> handled.response]

\* A mutation of the store: the change goes through the merge engine when the
\* store accepts it, and nothing changes when the store rejects it.
Mutate(result, call) ==
    /\ inner' = IF result.tag = "Ok" THEN Apply(inner, call) ELSE inner
    /\ steps' = steps + 1
    /\ UNCHANGED <<prev, last, everCode, viaStorage, target, calls, foreign, dump, wire, loaded>>

HandleSetBalance ==
    /\ steps < MaxOps
    /\ dump = None
    /\ \E address \in Addresses, balance \in Balances, result \in SetResults :
         /\ rpc' = Request("handle_set_balance", <<address, balance>>,
                           handle_set_balance(result, address, balance))
         /\ Mutate(result, SetBalanceCall(inner, address, balance))

HandleSetCode ==
    /\ steps < MaxOps
    /\ dump = None
    /\ \E address \in Addresses, code \in Codes, result \in SetResults :
         /\ rpc' = Request("handle_set_code", <<address, code>>,
                           handle_set_code(result, address, code))
         /\ Mutate(result, SetCodeCall(inner, address, code))

HandleSetNonce ==
    /\ steps < MaxOps
    /\ dump = None
    /\ \E address \in Addresses, nonce \in Nonces, result \in SetResults :
         /\ rpc' = Request("handle_set_nonce", <<address, nonce>>,
                           handle_set_nonce(result, address, nonce))
         /\ Mutate(result, SetNonceCall(inner, address, nonce))

HandleSetStorageAt ==
    /\ steps < MaxOps
    /\ dump = None
    /\ \E address \in Addresses, index \in Indices, value \in StorageValues,
          result \in SetResults :
         /\ rpc' = Request("handle_set_storage_at", <<address, index, value>>,
                           handle_set_storage_at(result, address, index, value))
         /\ Mutate(result, SetStorageCall(inner, address, index, value))

\* The changes of an execution committed to the store: a foreign map merged in.
CommitDiff ==
    /\ steps < MaxOps
    /\ dump = None
    /\ \E diff \in ForeignMaps : inner' = Apply(inner, DiffCall(diff))
    /\ steps' = steps + 1
    /\ UNCHANGED <<prev, last, everCode, viaStorage, target, calls, outer>>

\* The snapshot returned is the one that goes on the wire.
HandleDumpState ==
    /\ \E result \in {Ok(dump_state(inner))} \cup StoreErrors :
         LET handled == handle_dump_state(result) IN
         /\ rpc' = Request("handle_dump_state", <<>>, handled)
         /\ IF handled.response.tag = "Ok"
            THEN /\ dump' = Some(handled.response.val)
                 /\ wire' = Some(StateDump_serialize(handled.response.val))
            ELSE UNCHANGED <<dump, wire>>
    /\ UNCHANGED <<inner, prev, last, steps, everCode, viaStorage, target, calls,
                   foreign, loaded>>

\* The snapshot loaded is the one read from the wire.
HandleLoadState ==
    /\ wire # None
    /\ loaded = None
    /\ LET parsed == StateDump_deserialize(wire[1]) IN
       /\ parsed.tag = "Ok"
       /\ \E result \in SetResults :
            /\ rpc' = Request("handle_load_state", <<parsed.val>>,
                              handle_load_state(result, parsed.val))
            /\ IF result.tag = "Ok"
               THEN \E order \in LoadOrders(parsed.val) :
                      loaded' = Some(load_state_loop(StateDiff_default, order, DOMAIN order))
               ELSE UNCHANGED loaded
    /\ UNCHANGED <<inner, prev, last, steps, everCode, viaStorage, target, calls,
                   foreign, dump, wire>>

NextRpc ==
    \/ HandleSetBalance
    \/ HandleSetCode
    \/ HandleSetNonce
    \/ HandleSetStorageAt
    \/ CommitDiff
    \/ HandleDumpState
    \/ HandleLoadState

SpecRpc == Init /\ [][NextRpc]_vars

----------------------------------------------------------------------------
(* Claims about call sequences on one address (SpecLoad) *)

\* The call carries an AccountInfo whose code is not empty.
CarriesCode(call) ==
    call.account_info # None /\ account_has_code(call.account_info[1])

IsAccountChange(call) == call.op = "apply_account_change"

IsStorageChange(call) == call.op = "apply_storage_change"

CallIndexes == 1..Len(calls)

HasAccountChangeWithCode(cs) ==
    \E i \in 1..Len(cs) : IsAccountChange(cs[i]) /\ CarriesCode(cs[i])

TargetCreated == target \in DOMAIN inner /\ Created \in inner[target].status

\* C1 as stated: after any sequence of apply_account_change / apply_storage_change
\* calls on A, from an empty diff, that includes a call carrying an AccountInfo with
\* code, the status of A contains Created.
C1_AnyCallWithCodeGivesCreated ==
    (\E i \in CallIndexes : CarriesCode(calls[i])) => TargetCreated

\* C1 amended: the call that carries the code is an apply_account_change, or the
\* apply_storage_change that inserts A (the first call on A); the info given to an
\* apply_storage_change on a present address is ignored.
C1_StoredCodeGivesCreated ==
    (\E i \in CallIndexes :
        /\ CarriesCode(calls[i])
        /\ IsAccountChange(calls[i]) \/ i = 1)
    => TargetCreated

\* C1 witness: the regression case, code arriving on an account inserted without code.
C1_Witness ==
    /\ Len(calls) >= 2
    /\ IsAccountChange(calls[1]) /\ ~CarriesCode(calls[1])
    /\ IsAccountChange(calls[2]) /\ CarriesCode(calls[2])
    /\ TargetCreated

\* The orderings of a sequence of calls.
Orderings(cs) ==
    {[i \in 1..Len(cs) |-> cs[p[i]]] : p \in Permutations(1..Len(cs))}

\* The status of the target after the calls cs on an empty diff.
StatusAfter(cs) == Replay(StateDiff_default, cs)[target].status

\* C2 as stated: every ordering of the calls made on A leaves A with the same status.
C2_StatusIndependentOfOrder ==
    calls # <<>> => \A cs \in Orderings(calls) : StatusAfter(cs) = inner[target].status

\* C2 amended: every ordering leaves Touched; every ordering leaves the same status
\* when the calls include an apply_account_change with code, or no
\* apply_storage_change, or no apply_account_change; otherwise an ordering leaves
\* Created exactly when it starts with an apply_storage_change.
C2_StatusOrderIndependence ==
    calls # <<>> =>
        \A cs \in Orderings(calls) :
            /\ Touched \in StatusAfter(cs)
            /\ IF \/ HasAccountChangeWithCode(calls)
                  \/ \A i \in CallIndexes : IsAccountChange(calls[i])
                  \/ \A i \in CallIndexes : IsStorageChange(calls[i])
               THEN StatusAfter(cs) = inner[target].status
               ELSE (Created \in StatusAfter(cs)) <=> IsStorageChange(cs[1])

\* C2 witness: balance, storage and code arrive in some order, and the orderings agree.
C2_Witness ==
    /\ Len(calls) = 3
    /\ \E i, j, k \in CallIndexes :
          /\ IsAccountChange(calls[i]) /\ ~CarriesCode(calls[i])
          /\ IsStorageChange(calls[j])
          /\ IsAccountChange(calls[k]) /\ CarriesCode(calls[k])
    /\ IsAccountChange(calls[1]) /\ ~CarriesCode(calls[1])
    /\ \A cs \in Orderings(calls) : StatusAfter(cs) = {Touched, Created}

\* C4 as stated: an address in the diff has Created iff its stored info had code at
\* some point.
C4_CreatedIffEverCode ==
    \A a \in DOMAIN inner : (Created \in inner[a].status) <=> (a \in everCode)

\* C4 amended: an address in the diff has Created iff its stored info had code at
\* some point or its entry was inserted by apply_storage_change.
C4_CreatedIffEverCodeOrStorageInsert ==
    \A a \in DOMAIN inner :
        (Created \in inner[a].status) <=> (a \in everCode \/ a \in viaStorage)

\* C4 witness: the code came and went again, and Created stayed.
C4_Witness ==
    /\ target \in DOMAIN inner
    /\ target \in everCode
    /\ target \notin viaStorage
    /\ ~account_has_code(inner[target].info)
    /\ Created \in inner[target].status

----------------------------------------------------------------------------
(* Claims about one call (Spec): prev is the map before the call, last the call *)

LastIsAccountChange == last.op = "apply_account_change"

LastIsStorageChange == last.op = "apply_storage_change"

LastIsDiff == last.op = "apply_diff"

\* The address was in the diff before the last call.
WasPresent == last.address \in DOMAIN prev

\* C3: no call clears a flag: every flag an address had before the call it has after.
C3_FlagsMonotone ==
    \A a \in DOMAIN prev :
        /\ a \in DOMAIN inner
        /\ prev[a].status \subseteq inner[a].status

\* C3 witness: apply_diff on an address whose flags the foreign account lacks, and
\* whose foreign flags the address lacked.
C3_Witness ==
    /\ LastIsDiff
    /\ \E a \in (DOMAIN prev) \cap (DOMAIN last.diff) :
          /\ Created \in prev[a].status
          /\ Created \notin last.diff[a].status
          /\ Touched \notin prev[a].status
          /\ inner[a].status = {Touched, Created}

\* C5 as stated: apply_account_change with code on a present address whose status
\* lacks Created adds Created and keeps the other flags.
C5_CodeAddsCreatedWhenStatusLacksIt ==
    (/\ LastIsAccountChange
     /\ WasPresent
     /\ account_has_code(last.account_info[1])
     /\ Created \notin prev[last.address].status)
    => /\ Created \in inner[last.address].status
       /\ prev[last.address].status \subseteq inner[last.address].status

\* C5 amended: apply_account_change with code on a present address adds Created
\* (and keeps the other flags) when the stored info has no code, and leaves the
\* status as it is when the stored info has code already, with or without Created;
\* on an address inserted without code the status becomes exactly Touched | Created.
C5_CodeAddsCreatedWhenInfoLacksCode ==
    (/\ LastIsAccountChange
     /\ WasPresent
     /\ account_has_code(last.account_info[1]))
    => /\ inner[last.address].status =
            IF account_has_code(prev[last.address].info)
            THEN prev[last.address].status
            ELSE prev[last.address].status \cup {Created}
       /\ prev[last.address].status = {Touched} /\ ~account_has_code(prev[last.address].info)
            => inner[last.address].status = {Touched, Created}

\* C5 witness: the regression case, balance first and code second.
C5_Witness ==
    /\ LastIsAccountChange
    /\ WasPresent
    /\ account_has_code(last.account_info[1])
    /\ prev[last.address] =
          [info |-> account_info_without_code(1000, 0), storage |-> EmptyMap,
           status |-> {Touched}, transaction_id |-> 0]
    /\ inner[last.address].status = {Touched, Created}
    /\ inner[last.address].info.code # None

\* C6: apply_account_change on an absent address inserts the info, an empty
\* storage, the ordering tag 0, and the status Touched, with Created iff the info
\* has code.
C6_AccountChangeInsert ==
    (LastIsAccountChange /\ ~WasPresent)
    => /\ last.address \in DOMAIN inner
       /\ inner[last.address].info = last.account_info[1]
       /\ DOMAIN inner[last.address].storage = {}
       /\ inner[last.address].transaction_id = 0
       /\ inner[last.address].status =
            IF last.account_info[1].code_hash = KECCAK_EMPTY
            THEN {Touched} ELSE {Touched, Created}

\* C6 witness: an account with code is inserted.
C6_Witness ==
    /\ LastIsAccountChange
    /\ ~WasPresent
    /\ last.account_info[1].code = Some(Bytecode1)
    /\ inner[last.address].status = {Touched, Created}

\* C7: apply_storage_change on an absent address inserts the status
\* Touched | Created whatever the code, the storage {index -> slot}, and the given
\* info or else the default one: zero balance, zero nonce, no code.
C7_StorageChangeInsert ==
    (LastIsStorageChange /\ ~WasPresent)
    => /\ last.address \in DOMAIN inner
       /\ inner[last.address].status = {Touched, Created}
       /\ DOMAIN inner[last.address].storage = {last.index}
       /\ inner[last.address].storage[last.index] = last.slot[1]
       /\ last.account_info # None => inner[last.address].info = last.account_info[1]
       /\ last.account_info = None =>
            /\ inner[last.address].info.balance = 0
            /\ inner[last.address].info.nonce = 0
            /\ inner[last.address].info.code_hash = KECCAK_EMPTY
            /\ inner[last.address].info.code \in {None, Some(<<>>)}

\* C7 witness: a storage write to an unseen address without an info.
C7_Witness ==
    /\ LastIsStorageChange
    /\ ~WasPresent
    /\ last.account_info = None
    /\ inner[last.address].status = {Touched, Created}
    /\ ~account_has_code(inner[last.address].info)

\* C8: apply_storage_change on a present address sets storage[index] to the slot and
\* changes nothing else of the account: info, status, ordering tag and the other
\* storage keys stay, and the info given is ignored.
C8_StorageChangeUpdate ==
    (LastIsStorageChange /\ WasPresent)
    => /\ inner[last.address].info = prev[last.address].info
       /\ inner[last.address].status = prev[last.address].status
       /\ inner[last.address].transaction_id = prev[last.address].transaction_id
       /\ DOMAIN inner[last.address].storage =
            (DOMAIN prev[last.address].storage) \cup {last.index}
       /\ inner[last.address].storage[last.index] = last.slot[1]
       /\ \A k \in (DOMAIN prev[last.address].storage) \ {last.index} :
            inner[last.address].storage[k] = prev[last.address].storage[k]

\* C8 witness: an info with code is given for a present account without code that
\* holds another storage key and a different value at the index.
C8_Witness ==
    /\ LastIsStorageChange
    /\ WasPresent
    /\ last.account_info # None
    /\ account_has_code(last.account_info[1])
    /\ ~account_has_code(prev[last.address].info)
    /\ Created \notin inner[last.address].status
    /\ \E k \in DOMAIN prev[last.address].storage : k # last.index
    /\ last.index \in DOMAIN prev[last.address].storage
    /\ prev[last.address].storage[last.index] # last.slot[1]

\* C9: apply_account_change on a present address replaces the whole info by the new
\* one, with or without code, and leaves the storage and the ordering tag.
C9_AccountChangeUpdate ==
    (LastIsAccountChange /\ WasPresent)
    => /\ inner[last.address].info = last.account_info[1]
       /\ inner[last.address].storage = prev[last.address].storage
       /\ inner[last.address].transaction_id = prev[last.address].transaction_id

\* C9 witness: an info without code replaces an info with code, balance and nonce
\* of an account that holds storage and a set ordering tag.
C9_Witness ==
    /\ LastIsAccountChange
    /\ WasPresent
    /\ account_has_code(prev[last.address].info)
    /\ ~account_has_code(last.account_info[1])
    /\ prev[last.address].info.balance # last.account_info[1].balance
    /\ prev[last.address].info.nonce # last.account_info[1].nonce
    /\ DOMAIN prev[last.address].storage # {}
    /\ prev[last.address].transaction_id # 0
    /\ inner[last.address].info.code = None

\* C10: after apply_diff(D), an address in self and in D has the info of D, the
\* union of the two statuses, and the storage of self overwritten per key by D's.
C10_DiffMerge ==
    LastIsDiff =>
        \A a \in (DOMAIN prev) \cap (DOMAIN last.diff) :
            /\ inner[a].info = last.diff[a].info
            /\ inner[a].status = prev[a].status \cup last.diff[a].status
            /\ DOMAIN inner[a].storage =
                 (DOMAIN prev[a].storage) \cup (DOMAIN last.diff[a].storage)
            /\ \A k \in DOMAIN inner[a].storage :
                 inner[a].storage[k] =
                    IF k \in DOMAIN last.diff[a].storage
                    THEN last.diff[a].storage[k]
                    ELSE prev[a].storage[k]

\* C10 witness: a key only in self, a key in both with different slots, different
\* infos, and two statuses neither of which holds the other.
C10_Witness ==
    /\ LastIsDiff
    /\ \E a \in (DOMAIN prev) \cap (DOMAIN last.diff) :
          /\ \E k \in DOMAIN prev[a].storage : k \notin DOMAIN last.diff[a].storage
          /\ \E k \in (DOMAIN prev[a].storage) \cap (DOMAIN last.diff[a].storage) :
                prev[a].storage[k] # last.diff[a].storage[k]
          /\ prev[a].info # last.diff[a].info
          /\ ~(prev[a].status \subseteq last.diff[a].status)
          /\ ~(last.diff[a].status \subseteq prev[a].status)
          /\ inner[a].status = {Touched, Created}

\* C15: apply_diff(D) inserts the account of D verbatim for an address absent from
\* self: info, storage, status and ordering tag are those of D, no flag is added.
C15_DiffInsertVerbatim ==
    LastIsDiff =>
        \A a \in (DOMAIN last.diff) \ (DOMAIN prev) :
            /\ a \in DOMAIN inner
            /\ inner[a] = last.diff[a]

\* C15 witness: a foreign account with code, no flag at all and a set ordering tag
\* is inserted next to an address self held already.
C15_Witness ==
    /\ LastIsDiff
    /\ DOMAIN prev # {}
    /\ \E a \in (DOMAIN last.diff) \ (DOMAIN prev) :
          /\ account_has_code(last.diff[a].info)
          /\ last.diff[a].status = {}
          /\ inner[a].status = {}
          /\ inner[a].transaction_id = 3
          /\ DOMAIN inner[a].storage # {}

\* The addresses the last call names.
LastAddresses ==
    IF LastIsDiff THEN DOMAIN last.diff
    ELSE IF LastIsAccountChange \/ LastIsStorageChange THEN {last.address}
    ELSE {}

\* C17: a call leaves every address it does not name as it was: the entry is
\* unchanged, and no such address is added or removed.
C17_AddressFrame ==
    \A a \in Addresses \ LastAddresses :
        /\ (a \in DOMAIN inner) <=> (a \in DOMAIN prev)
        /\ a \in DOMAIN prev => inner[a] = prev[a]

\* C17 witness: apply_diff of a map that does not hold an address of the diff.
C17_Witness ==
    /\ LastIsDiff
    /\ last.diff # EmptyMap
    /\ \E a \in (DOMAIN prev) \ (DOMAIN last.diff) : inner[a] = prev[a]

\* C18: no call removes an address from the diff or a storage key from an account.
C18_OnlyGrows ==
    /\ (DOMAIN prev) \subseteq (DOMAIN inner)
    /\ \A a \in DOMAIN prev :
          (DOMAIN prev[a].storage) \subseteq (DOMAIN inner[a].storage)

\* C18 witness: apply_diff on an account that holds a storage key the foreign
\* account does not hold.
C18_Witness ==
    /\ LastIsDiff
    /\ \E a \in (DOMAIN prev) \cap (DOMAIN last.diff) :
          /\ \E k \in DOMAIN prev[a].storage : k \notin DOMAIN last.diff[a].storage
          /\ (DOMAIN prev[a].storage) \subseteq (DOMAIN inner[a].storage)

----------------------------------------------------------------------------
(* Claims about two apply_diff calls in a row (SpecLayer) *)

IsDiff(call) == call.op = "apply_diff"

LastTwoAreDiffs ==
    /\ Len(calls) >= 2
    /\ IsDiff(calls[Len(calls)])
    /\ IsDiff(calls[Len(calls) - 1])

\* The diff as it was before the last two calls.
BeforeLastTwo == Replay(StateDiff_default, SubSeq(calls, 1, Len(calls) - 2))

\* C11: apply_diff(D1) and then apply_diff(D2) leave the diff that one apply_diff of
\* D1 merged with D2 (D2 applied onto D1) leaves, for every address and every
\* field; for an address in D1 and D2, the info and the storage values of D2 win.
C11_DiffLayering ==
    LastTwoAreDiffs =>
        LET D1 == calls[Len(calls) - 1].diff
            D2 == calls[Len(calls)].diff
        IN  /\ inner = apply_diff(BeforeLastTwo, apply_diff(D1, D2))
            /\ \A a \in (DOMAIN D1) \cap (DOMAIN D2) :
                  /\ inner[a].info = D2[a].info
                  /\ \A k \in DOMAIN D2[a].storage :
                        inner[a].storage[k] = D2[a].storage[k]

\* C11 witness: two foreign maps with different infos and different slots at one
\* key, laid on a diff that holds the address already.
C11_Witness ==
    /\ Len(calls) = 3
    /\ LastTwoAreDiffs
    /\ target \in DOMAIN BeforeLastTwo
    /\ calls[2].diff[target].info # calls[3].diff[target].info
    /\ \E k \in (DOMAIN calls[2].diff[target].storage)
                    \cap (DOMAIN calls[3].diff[target].storage) :
          calls[2].diff[target].storage[k] # calls[3].diff[target].storage[k]
    /\ \E k \in DOMAIN BeforeLastTwo[target].storage :
          k \notin DOMAIN calls[3].diff[target].storage
    /\ inner[target].info = calls[3].diff[target].info

\* C19: apply_diff(D) applied a second time in a row changes nothing.
C19_DiffIdempotent ==
    (LastTwoAreDiffs /\ calls[Len(calls)].diff = calls[Len(calls) - 1].diff)
    => inner = prev

\* C19 witness: the same foreign map twice on a diff that holds the address with
\* another info, with flags on both sides.
C19_Witness ==
    /\ Len(calls) = 3
    /\ LastTwoAreDiffs
    /\ calls[3].diff = calls[2].diff
    /\ target \in DOMAIN BeforeLastTwo
    /\ BeforeLastTwo[target].info # calls[3].diff[target].info
    /\ calls[3].diff[target].status = {Touched}
    /\ Created \in BeforeLastTwo[target].status
    /\ inner = prev

----------------------------------------------------------------------------
(* Claims about diffs merged into one another (SpecNested) *)

\* Every account of the diff whose info has code has Created.
CodeImpliesCreated(diff) ==
    \A a \in DOMAIN diff : account_has_code(diff[a].info) => Created \in diff[a].status

\* C16: in a diff built from empty by apply_account_change, apply_storage_change and
\* apply_diff of diffs built the same way, every account whose info has code has
\* Created.
C16_CodeImpliesCreated == CodeImpliesCreated(inner) /\ CodeImpliesCreated(foreign)

\* C16 witness: a diff whose account has code was merged into a diff that held the
\* address without code and without Created.
C16_Witness ==
    /\ LastIsDiff
    /\ target \in DOMAIN prev
    /\ ~account_has_code(prev[target].info)
    /\ Created \notin prev[target].status
    /\ target \in DOMAIN last.diff
    /\ account_has_code(inner[target].info)
    /\ Created \in inner[target].status

----------------------------------------------------------------------------
(* Claims about requests at the boundary (SpecRpc) *)

\* The store method each mutating or loading handler forwards to.
StoreMethod(handler) ==
    CASE handler = "handle_set_balance" -> "set_balance"
      [] handler = "handle_set_code" -> "set_code"
      [] handler = "handle_set_nonce" -> "set_nonce"
      [] handler = "handle_set_storage_at" -> "set_account_storage_slot"
      [] handler = "handle_load_state" -> "load_state"
      [] handler = "handle_dump_state" -> "dump_state"

SameResult(r1, r2) == r1.tag = r2.tag /\ r1.val = r2.val

\* C14: every handler makes exactly one call on the state store, its own
\* method with the arguments of the request unchanged; a set or load handler
\* returns Ok(true) exactly when that call succeeds, returns the store's error
\* when it fails, and never returns Ok(false); handle_dump_state returns the
\* store's result, snapshot or error, unchanged.
C14_HandlersForward ==
    rpc.handler # "none" =>
        /\ Len(rpc.store_calls) = 1
        /\ rpc.store_calls[1].method = StoreMethod(rpc.handler)
        /\ rpc.store_calls[1].args = rpc.args
        /\ rpc.response.tag \in {"Ok", "Err"}
        /\ rpc.response.tag = rpc.store_result.tag
        /\ IF rpc.handler = "handle_dump_state" \/ rpc.store_result.tag = "Err"
           THEN SameResult(rpc.response, rpc.store_result)
           ELSE rpc.response.val = TRUE

\* A set handler whose store call failed, after an earlier change went through.
C14_Witness ==
    /\ rpc.handler = "handle_set_code"
    /\ rpc.store_result = Err("State")
    /\ rpc.response = Err("State")
    /\ inner # StateDiff_default

\* C13: on the wire an account has its code field exactly when its code is
\* not empty and its storage field exactly when its storage is not empty, and
\* always its balance and nonce; reading the wire form back succeeds and gives
\* the account that was written.
C13_WireFormat ==
    dump # None =>
        /\ DOMAIN wire[1].accounts = DOMAIN dump[1].accounts
        /\ \A a \in DOMAIN dump[1].accounts :
             LET x == dump[1].accounts[a]
                 json == wire[1].accounts[a]
             IN /\ ("code" \in DOMAIN json) <=> (x.code # <<>>)
                /\ ("storage" \in DOMAIN json) <=> (DOMAIN x.storage # {})
                /\ {"balance", "nonce"} \subseteq DOMAIN json
                /\ json["balance"] = ToHex(x.balance)
                /\ json["nonce"] = ToHex(x.nonce)
                /\ StateAccount_deserialize(json).tag = "Ok"
                /\ StateAccount_deserialize(json).val = x

\* A snapshot on the wire with an account that has neither code nor storage
\* and a zero nonce, and an account with code and a zero balance.
C13_Witness ==
    /\ dump # None
    /\ \E a, b \in DOMAIN dump[1].accounts :
         /\ DOMAIN wire[1].accounts[a] = {"balance", "nonce"}
         /\ dump[1].accounts[a].nonce = 0
         /\ dump[1].accounts[a].balance # 0
         /\ "code" \in DOMAIN wire[1].accounts[b]
         /\ dump[1].accounts[b].balance = 0

\* C12: a diff rebuilt from the snapshot of a diff, by one
\* apply_account_change and one apply_storage_change per storage entry in any
\* order per address, has the same addresses as the diff the snapshot was taken
\* of, and the same balance, nonce, code and storage values at every address.
C12_DumpLoadRoundTrip ==
    loaded # None =>
        /\ DOMAIN loaded[1] = DOMAIN inner
        /\ \A a \in DOMAIN inner :
             ResolvedAccount(loaded[1][a]) = ResolvedAccount(inner[a])

\* A load of a snapshot whose account has code, a balance and a storage entry.
C12_Witness ==
    /\ loaded # None
    /\ rpc.handler = "handle_load_state"
    /\ \E a \in DOMAIN loaded[1] :
         /\ DOMAIN loaded[1][a].storage # {}
         /\ account_has_code(loaded[1][a].info)
         /\ a \in DOMAIN inner

====
